---- MODULE Spec2Model ----
(***************************************************************************)
(* Model of uiautomator2/core.py: the JSON-RPC client (_http_request,      *)
(* _jsonrpc_call), the process handle MockAdbProcess, and the lifecycle    *)
(* supervisor BasicUiautomatorServer (start_uiautomator, stop_uiautomator, *)
(* jsonrpc_call) run by several caller threads against one device.         *)
(*                                                                         *)
(* Time is counted in poll intervals: one tick is the 0.5 s of             *)
(* time.sleep(.5).  Text is a sequence of tokens; `pat in text` is         *)
(* containment of a contiguous token sequence.                             *)
(***************************************************************************)
EXTENDS Naturals, Integers, Sequences, FiniteSets, TLC

\* ------------------------------------------------------------------ bounds
\* caller threads of the one session
NThreads == 2
\* facade operations (start / stop / jsonrpc_call) the callers begin in one behaviour
MaxOps == 2
\* processes launch_uiautomator may create in one behaviour
MaxLaunch == 2
\* chunks the drain thread may receive from one process
MaxChunks == 1
\* ... and in the runs that watch one handle
MaxHandleChunks == 2
\* JSONRpcWrapper objects one wrapper run creates
MaxWrappers == 2
\* _wait_ready's launch_timeout (30 s in the code), in ticks
LaunchTimeoutTicks == 2
\* stop_uiautomator's wait (10 s in the code), in ticks
StopTimeoutTicks == 1
\* longest health check, in ticks (the code's /ping timeout is 10 s)
MaxPingTicks == 2
\* longest message / data text of an error response, in tokens
MaxMsgLen == 2

\* ------------------------------------------------------- program constants
\* time.sleep(.5): one tick
PollTicks == 1
\* stacktrace[:1000] + "..." + stacktrace[-1000:]
TruncLen == 1000

Threads == 1..NThreads
\* BasicUiautomatorServer instances on the device
Sessions == 1..NThreads
Handles == 1..MaxLaunch
NoThread == 0

\* ------------------------------------------------------------------- text
Tok ==
    { "UiAutomation not connected", "android.os.", "DeadObjectException",
      "DeadSystemRuntimeException", "uiautomator.", "UiObjectNotFoundException",
      "java.lang.", "StackOverflowError", "x" }

\* the value None of an absent error.data
None == << "<None>" >>

\* Python's `pat in text`
Contains(pat, text) ==
    \E i \in 0..(Len(text) - Len(pat)) : SubSeq(text, i + 1, i + Len(pat)) = pat

\* Python's text[:n]
Take(text, n) == SubSeq(text, 1, IF n < Len(text) THEN n ELSE Len(text))

\* Python's text[-n:]
Last(text, n) == SubSeq(text, IF Len(text) > n THEN Len(text) - n + 1 ELSE 1, Len(text))

SeqsUpTo(S, n) == UNION { [1..k -> S] : k \in 0..n }

\* ------------------------------------------------------------- exceptions
HTTPError == "HTTPError"
HTTPTimeoutError == "HTTPTimeoutError"
UiAutomationNotConnectedError == "UiAutomationNotConnectedError"
UiObjectNotFoundError == "UiObjectNotFoundError"
RPCStackOverflowError == "RPCStackOverflowError"
RPCUnknownError == "RPCUnknownError"
RPCInvalidError == "RPCInvalidError"
LaunchUiAutomationError == "LaunchUiAutomationError"
AccessibilityServiceAlreadyRegisteredError == "AccessibilityServiceAlreadyRegisteredError"
\* builtin exceptions that the code lets through
TypeError == "TypeError"
SocketTimeout == "socket.timeout"
AdbError == "AdbError"
ConnectError == "ConnectError"
DeviceError == "DeviceError"

\* uiautomator2/exceptions.py: the classes an exception of class k is an instance of
Bases(k) ==
    IF k = HTTPTimeoutError THEN {HTTPTimeoutError, HTTPError} ELSE {k}

\* a raised exception / a returned value, as one record shape
Raise(k, c, m, p, s) ==
    [tag |-> "raise", kind |-> k, code |-> c, message |-> m, params |-> p,
     stacktrace |-> s, value |-> 0]
Return(v) ==
    [tag |-> "return", kind |-> "", code |-> 0, message |-> <<>>, params |-> <<>>,
     stacktrace |-> <<>>, value |-> v]
RaiseK(k) == Raise(k, 0, <<>>, <<>>, <<>>)
NoOutcome ==
    [tag |-> "none", kind |-> "", code |-> 0, message |-> <<>>, params |-> <<>>,
     stacktrace |-> <<>>, value |-> 0]

\* ------------------------------------------------------------ HTTP layer
\* what the wire does to one exchange
NetEvents == {"200", "non200", "connect_fail", "timeout"}
\* ... and to a GET /ping: "200" is the answer 200 with body pong, "200_other"
\* the answer 200 with another body
PingEvents == NetEvents \cup {"200_other"}

\* _http_request: a response (tag "return") or the exception that leaves it.
\* The except clauses name requests.Timeout / requests.RequestException, which
\* http.client never raises: an exchange that times out leaves as socket.timeout.
_http_request(net) ==
    CASE net \in {"200", "200_other"} -> Return(0)
      [] net = "non200" -> RaiseK(HTTPError)
      [] net = "connect_fail" -> RaiseK(HTTPError)
      [] net = "timeout" -> RaiseK(SocketTimeout)

\* ------------------------------------------------------------- RPC layer
\* A decoded response body.  isdict: r.json() is a dict; haserr / hasres: the
\* keys "error" / "result" are present; data = None: error.data is absent.
Response(d, e, r, c, m, s, v) ==
    [isdict |-> d, haserr |-> e, hasres |-> r, code |-> c, message |-> m,
     data |-> s, result |-> v]

\* r.text: the raw body, every field in it
RawText(resp) ==
    IF resp.haserr
    THEN resp.message \o << "," >> \o (IF resp.data = None THEN <<>> ELSE resp.data)
    ELSE <<>>

\* stacktrace[:1000] + "..." + stacktrace[-1000:]
Truncate(s) == Take(s, TruncLen) \o << "..." >> \o Last(s, TruncLen)

\* _jsonrpc_call with the test for "result" placed before the test for "error"
ClassifyMutant(resp, params) ==
    IF ~resp.isdict \/ ~resp.hasres THEN RaiseK(RPCInvalidError)
    ELSE Return(resp.result)

\* _jsonrpc_call after the HTTP exchange returned resp
Classify(resp, params) ==
    IF ~resp.isdict THEN RaiseK(RPCInvalidError)
    ELSE IF resp.haserr THEN
        IF Contains(<< "UiAutomation not connected" >>, RawText(resp))
            THEN RaiseK(UiAutomationNotConnectedError)
        ELSE IF Contains(<< "android.os.", "DeadObjectException" >>, resp.message)
            THEN RaiseK(UiAutomationNotConnectedError)
        ELSE IF Contains(<< "android.os.", "DeadSystemRuntimeException" >>, resp.message)
            THEN RaiseK(UiAutomationNotConnectedError)
        ELSE IF Contains(<< "uiautomator.", "UiObjectNotFoundException" >>, resp.message)
            THEN Raise(UiObjectNotFoundError, resp.code, resp.message, params, <<>>)
        ELSE IF Contains(<< "java.lang.", "StackOverflowError" >>, resp.message)
            THEN IF resp.data = None
                 THEN RaiseK(TypeError)
                 ELSE Raise(RPCStackOverflowError, 0, resp.message, params,
                            Truncate(resp.data))
        ELSE Raise(RPCUnknownError, resp.code, resp.message, params, resp.data)
    ELSE IF ~resp.hasres THEN RaiseK(RPCInvalidError)
    ELSE Return(resp.result)

\* lines 216-221: the envelope of a call
payloadMutant(m, p) == [jsonrpc |-> "2.0", id |-> 1, method |-> m, params |-> <<>>]
payloadNoId(m, p) == [jsonrpc |-> "2.0", id |-> 0, method |-> m, params |-> p]
payload(m, p) == [jsonrpc |-> "2.0", id |-> 1, method |-> m, params |-> p]

\* a request without data (line 186)
NoBody == [jsonrpc |-> "", id |-> 0, method |-> "", params |-> <<>>]

\* lines 185-188: what conn.request puts on the wire; the body is the JSON
\* object of data
HttpRequest(verb, path, data) == [verb |-> verb, path |-> path, body |-> data]

\* line 222: the request of a call
RpcRequest(m, p) == HttpRequest("POST", "/jsonrpc/0", payload(m, p))

\* lines 271 and 382: the request of a health check
PingRequest == HttpRequest("GET", "/ping", NoBody)

\* _jsonrpc_call: one POST /jsonrpc/0 and the classification of its answer
_jsonrpc_call(net, resp, params) ==
    IF _http_request(net).tag = "raise" THEN _http_request(net)
    ELSE Classify(resp, params)

\* the line-404 test: except (HTTPError, UiAutomationNotConnectedError)
RecoverableMutant(o) ==
    o.tag = "raise" /\ o.kind \in {HTTPError, UiAutomationNotConnectedError, RPCUnknownError}
Recoverable(o) ==
    o.tag = "raise" /\ Bases(o.kind) \cap {HTTPError, UiAutomationNotConnectedError} # {}

\* the request the retry of line 408 sends
RetryRequestMutant(r) == [r EXCEPT !.params = <<>>]
RetryRequest(r) == [method |-> r.method, params |-> r.params]

\* ------------------------------------------------------------------ state
VARIABLES
    pc,             \* thread -> where it is
    op,             \* thread -> the facade operation it runs (or ran last)
    wait,           \* thread -> stop_uiautomator's wait argument
    req,            \* thread -> jsonrpc_call's method and params
    sent,           \* thread -> the requests its current call has posted
    trace,          \* thread -> the stop / start / rpc steps of its current operation
    firstErr,       \* thread -> what the first RPC attempt of its call ended with
    retryErr,       \* thread -> what the retry of its call ended with
    outcome,        \* thread -> what its last finished operation ended with
    elapsed,        \* thread -> ticks since its wait loop took its deadline
    output_buffer,  \* thread -> its readiness wait's output_buffer
    opsLeft,        \* operations the callers may still begin
    lock,           \* BasicUiautomatorServer._lock: the holder, or NoThread
    _process,       \* session -> self._process: a handle, or 0 for None
    event,          \* handle -> MockAdbProcess._event is set
    output,         \* handle -> MockAdbProcess._output, in chunks
    conn,           \* handle -> its adb connection: "none", "open", "closed"
    proc,           \* handle -> the device process: "none", "starting", "serving", "exited"
    launches,       \* handles created so far
    jar,            \* the device's /data/local/tmp/u2.jar: "stale" or "current"
    tools,          \* the device's hash tool: "toybox", "md5" or "none"
    pushes,         \* sync.push calls so far
    callers,        \* the threads of the application that use a session
    owner,          \* thread -> the session (BasicUiautomatorServer instance) it uses
    shells,         \* hash queries (dev.shell) made so far
    cresp,          \* classification run: the response under test
    cout,           \* classification run: what _jsonrpc_call made of it
    kind,           \* facade run: the session kind, "adb" or "wifi"
    wire,           \* facade run: the HTTP requests the session has put on the wire
    bridge,         \* facade run: sync.push / sync.pull calls made on the bridge
    fop,            \* facade run: the last operation and its inputs
    fout,           \* facade run: what the last operation ended with
    conns,          \* facade run: the connections of the exchanges, as each exchange left them
    chunkCap,       \* chunks one launched process writes at most in this run
    launch_timeout, \* _wait_app_process_ready's timeout argument in this run, in ticks
    launched,       \* thread -> the handle its current start_uiautomator has launched, or 0
    wrappers,       \* wrapper run: JSONRpcWrapper objects created so far
    wmethod,        \* wrapper run: wrapper -> its self.method
    wobj,           \* wrapper run: thread -> the wrapper object it holds, or 0
    wvia,           \* wrapper run: thread -> the attribute name it last got from its wrapper
    wcall           \* wrapper run: the last jsonrpc_call a wrapper made

tvars ==
    << pc, op, wait, req, sent, trace, firstErr, retryErr, outcome, elapsed, output_buffer,
       opsLeft >>
svars == << lock, _process >>
hvars == << event, output, conn, proc, launches >>
dvars == << jar, tools, pushes, callers, owner, shells >>
cvars == << cresp, cout >>
fvars == << kind, wire, bridge, fop, fout, conns >>
evars == << chunkCap, launch_timeout >>
wvars == << wrappers, wmethod, wobj, wvia, wcall >>
vars == << tvars, svars, hvars, dvars, cvars, fvars, evars, launched, wvars >>

\* the device answers /ping and /jsonrpc/0 while a launched server serves
alive == \E h \in Handles : proc[h] = "serving"

Methods == {"deviceInfo"}
ParamSets == { << "a" >> }

\* responses the service gives in the lifecycle runs: one per outcome class
MainResponses ==
    { Response(TRUE, FALSE, TRUE, 0, <<>>, None, 1),
      Response(TRUE, TRUE, FALSE, 1, << "UiAutomation not connected" >>, None, 0),
      Response(TRUE, TRUE, FALSE, 2, << "uiautomator.", "UiObjectNotFoundException" >>, << "x" >>, 0),
      Response(TRUE, TRUE, FALSE, 3, << "java.lang.", "StackOverflowError" >>, << "x" >>, 0),
      Response(TRUE, TRUE, FALSE, 4, << "x" >>, << "x" >>, 0),
      Response(FALSE, FALSE, FALSE, 0, <<>>, None, 0) }

\* what the wire can do to an exchange, given the device
Nets == IF alive THEN {"200", "non200", "timeout"} ELSE {"connect_fail", "timeout"}
PingNets == IF alive THEN {"200", "timeout"} ELSE {"connect_fail", "timeout"}

\* response.content of an answered GET /ping
PingContent(net) == IF net = "200" THEN "pong" ELSE "other"

\* _check_alive with the comparison of the body inverted
_check_aliveMutant(net) ==
    IF _http_request(net).tag = "return" THEN Return(PingContent(net) # "pong")
    ELSE IF HTTPError \in Bases(_http_request(net).kind) THEN Return(FALSE)
    ELSE _http_request(net)

\* BasicUiautomatorServer._check_alive: True / False, or the exception it lets through
_check_alive(net) ==
    IF _http_request(net).tag = "return" THEN Return(PingContent(net) = "pong")
    ELSE IF HTTPError \in Bases(_http_request(net).kind) THEN Return(FALSE)
    ELSE _http_request(net)

\* output of `toybox md5sum FILE` / `md5 FILE` on the device
ShellMd5(tool) ==
    IF tools # tool THEN << tool, "not found" >>
    ELSE IF jar = "current" THEN << "local_md5", "u2.jar" >>
    ELSE << "other_md5", "u2.jar" >>

\* _check_device_file_hash without the fallback to md5
HashNoFallback == Contains(<< "local_md5" >>, ShellMd5("toybox"))

\* _check_device_file_hash that asks the second tool whenever the first did
\* not report the local hash
HashShellsMutant ==
    IF Contains(<< "local_md5" >>, ShellMd5("toybox")) THEN 1 ELSE 2

\* the shell commands _check_device_file_hash runs: toybox md5sum, and md5
\* when toybox is reported not found
HashShells ==
    IF Contains(<< "toybox" >>, ShellMd5("toybox")) /\ Contains(<< "not found" >>, ShellMd5("toybox"))
    THEN 2 ELSE 1

\* _check_device_file_hash
_check_device_file_hash ==
    LET first == ShellMd5("toybox")
        final == IF Contains(<< "toybox" >>, first) /\ Contains(<< "not found" >>, first)
                 THEN ShellMd5("md5") ELSE first
    IN  Contains(<< "local_md5" >>, final)

NoResponse == Response(FALSE, FALSE, FALSE, 0, <<>>, None, 0)

\* no facade operation yet
Fop(n, m, p, net, resp) == [name |-> n, method |-> m, params |-> p, net |-> net, resp |-> resp]
NoFop == Fop("none", "", <<>>, "", NoResponse)

\* the JSONRpcWrapper objects of a wrapper run
Wrappers == 1..MaxWrappers

\* a call made through a wrapper: the attribute name it was obtained by,
\* its arguments, and the jsonrpc_call(method, params, timeout) it made
Call(via, args, kwargs, m, p, tmo) ==
    [via |-> via, args |-> args, kwargs |-> kwargs, method |-> m, params |-> p, timeout |-> tmo]
\* no call made through a wrapper yet
NoCall == Call("None", <<>>, {}, "None", <<>>, "None")

\* the session as __init__ leaves it at line 301, before its start_uiautomator
InitSession ==
    /\ pc = [t \in Threads |-> "idle"]
    /\ op = [t \in Threads |-> "none"]
    /\ wait = [t \in Threads |-> TRUE]
    /\ req = [t \in Threads |-> [method |-> "", params |-> <<>>]]
    /\ sent = [t \in Threads |-> <<>>]
    /\ trace = [t \in Threads |-> <<>>]
    /\ firstErr = [t \in Threads |-> NoOutcome]
    /\ retryErr = [t \in Threads |-> NoOutcome]
    /\ outcome = [t \in Threads |-> NoOutcome]
    /\ elapsed = [t \in Threads |-> 0]
    /\ output_buffer = [t \in Threads |-> <<>>]
    /\ opsLeft = MaxOps
    /\ lock = NoThread
    /\ _process = [s \in Sessions |-> 0]
    /\ shells = 0
    /\ event = [h \in Handles |-> FALSE]
    /\ output = [h \in Handles |-> <<>>]
    /\ conn = [h \in Handles |-> "none"]
    /\ proc = [h \in Handles |-> "none"]
    /\ launches = 0
    /\ pushes = 0
    /\ cout = NoOutcome
    /\ wire = <<>>
    /\ bridge = 0
    /\ fop = NoFop
    /\ fout = NoOutcome
    /\ conns = <<>>
    /\ launched = [t \in Threads |-> 0]
    /\ wrappers = 0
    /\ wmethod = [w \in Wrappers |-> "None"]
    /\ wobj = [t \in Threads |-> 0]
    /\ wvia = [t \in Threads |-> "None"]
    /\ wcall = NoCall

\* several caller threads; a device with toybox and an older u2.jar
Init ==
    /\ InitSession
    /\ kind = "adb"
    /\ callers = Threads
    /\ owner = [t \in Threads |-> 1]
    /\ jar = "stale"
    /\ tools = "toybox"
    /\ cresp = NoResponse
    /\ chunkCap = MaxChunks
    /\ launch_timeout = LaunchTimeoutTicks

\* two sessions on the device, each used by its own thread
InitTwo ==
    /\ InitSession
    /\ kind = "adb"
    /\ callers = Threads
    /\ owner = [t \in Threads |-> t]
    /\ jar = "stale"
    /\ tools = "toybox"
    /\ cresp = NoResponse
    /\ chunkCap = MaxChunks
    /\ launch_timeout = LaunchTimeoutTicks

\* one caller thread; any device
InitSolo ==
    /\ InitSession
    /\ kind = "adb"
    /\ callers = {1}
    /\ owner = [t \in Threads |-> 1]
    /\ jar \in {"stale", "current"}
    /\ tools \in {"toybox", "md5", "none"}
    /\ cresp = NoResponse
    /\ chunkCap = MaxChunks
    /\ launch_timeout = LaunchTimeoutTicks

\* MockAdbProcess.pool: 0 once the drain thread has set the event, else None
poolMutant(h) == "None"
pool(h) == IF event[h] THEN "0" ELSE "None"

\* a wait loop without a deadline
DeadlinePassedNever(e, limit) == FALSE
\* `while time.time() < deadline` is over: e ticks have passed of a wait of limit ticks
DeadlinePassedMutant(e, limit) == e + 1 >= limit
DeadlinePassed(e, limit) == e >= limit

\* ------------------------------------------------------- thread plumbing
\* the operation of thread t ends: it returns or raises o
Finish(t, o) ==
    /\ pc' = [pc EXCEPT ![t] = "idle"]
    /\ outcome' = [outcome EXCEPT ![t] = o]

\* threads whose operation may still come to launch a process
MayLaunch(t) ==
    /\ op[t] \in {"start", "call"}
    /\ pc[t] \in {"rpc1", "stop_lock", "stop_kill", "stop_killwait", "stop_wait",
                  "start_lock", "chk_proc", "start_alive"}

\* a new start or call fits the handles left
CanBegin(t) ==
    /\ t \in callers
    /\ pc[t] = "idle"
    /\ opsLeft > 0

CanBeginLaunching(t) ==
    /\ CanBegin(t)
    /\ launches + Cardinality({u \in Threads : MayLaunch(u)}) < MaxLaunch

Begin(t, o, first) ==
    /\ op' = [op EXCEPT ![t] = o]
    /\ pc' = [pc EXCEPT ![t] = first]
    /\ opsLeft' = opsLeft - 1
    /\ sent' = [sent EXCEPT ![t] = <<>>]
    /\ firstErr' = [firstErr EXCEPT ![t] = NoOutcome]
    /\ retryErr' = [retryErr EXCEPT ![t] = NoOutcome]
    /\ outcome' = [outcome EXCEPT ![t] = NoOutcome]
    /\ elapsed' = [elapsed EXCEPT ![t] = 0]
    /\ output_buffer' = [output_buffer EXCEPT ![t] = <<>>]

\* ------------------------------------------------------------ operations
\* a caller invokes start_uiautomator (the constructor's call included)
BeginStart(t) ==
    /\ CanBeginLaunching(t)
    /\ Begin(t, "start", "start_lock")
    /\ trace' = [trace EXCEPT ![t] = << "start" >>]
    /\ UNCHANGED << wait, req, svars, hvars, dvars, cvars, fvars, evars, launched, wvars >>

\* a caller invokes stop_uiautomator(wait=w)
BeginStop(t, w) ==
    /\ CanBegin(t)
    /\ Begin(t, "stop", "stop_lock")
    /\ wait' = [wait EXCEPT ![t] = w]
    /\ trace' = [trace EXCEPT ![t] = << "stop" >>]
    /\ UNCHANGED << req, svars, hvars, dvars, cvars, fvars, evars, launched, wvars >>

\* a caller invokes jsonrpc_call(method, params)
BeginCall(t, m, p) ==
    /\ CanBeginLaunching(t)
    /\ Begin(t, "call", "rpc1")
    /\ req' = [req EXCEPT ![t] = [method |-> m, params |-> p]]
    /\ trace' = [trace EXCEPT ![t] = <<>>]
    /\ UNCHANGED << wait, svars, hvars, dvars, cvars, fvars, evars, launched, wvars >>

\* the first attempt made under the lifecycle lock
Rpc1Locked(t, net, resp) ==
    /\ pc[t] = "rpc1"
    /\ lock = NoThread
    /\ LET o == _jsonrpc_call(net, resp, req[t].params) IN
        /\ sent' = [sent EXCEPT ![t] = Append(@, req[t])]
        /\ firstErr' = [firstErr EXCEPT ![t] = o]
        /\ IF Recoverable(o)
           THEN /\ pc' = [pc EXCEPT ![t] = "stop_lock"]
                /\ trace' = [trace EXCEPT ![t] = << "rpc", "stop" >>]
                /\ wait' = [wait EXCEPT ![t] = TRUE]
                /\ elapsed' = [elapsed EXCEPT ![t] = 0]
                /\ UNCHANGED outcome
           ELSE /\ Finish(t, o)
                /\ trace' = [trace EXCEPT ![t] = << "rpc" >>]
                /\ UNCHANGED << wait, elapsed >>
    /\ UNCHANGED << op, req, retryErr, output_buffer, opsLeft, svars, hvars, dvars, cvars, fvars, evars, launched, wvars >>

\* jsonrpc_call, line 403: the first attempt
Rpc1(t, net, resp) ==
    /\ pc[t] = "rpc1"
    /\ LET o == _jsonrpc_call(net, resp, req[t].params) IN
        /\ sent' = [sent EXCEPT ![t] = Append(@, req[t])]
        /\ firstErr' = [firstErr EXCEPT ![t] = o]
        /\ IF Recoverable(o)
           THEN /\ pc' = [pc EXCEPT ![t] = "stop_lock"]
                /\ trace' = [trace EXCEPT ![t] = << "rpc", "stop" >>]
                /\ wait' = [wait EXCEPT ![t] = TRUE]
                /\ elapsed' = [elapsed EXCEPT ![t] = 0]
                /\ UNCHANGED outcome
           ELSE /\ Finish(t, o)
                /\ trace' = [trace EXCEPT ![t] = << "rpc" >>]
                /\ UNCHANGED << wait, elapsed >>
    /\ UNCHANGED << op, req, retryErr, output_buffer, opsLeft, svars, hvars, dvars, cvars, fvars, evars, launched, wvars >>

\* jsonrpc_call, line 408: the retry
Rpc2(t, net, resp) ==
    /\ pc[t] = "rpc2"
    /\ sent' = [sent EXCEPT ![t] = Append(@, RetryRequest(req[t]))]
    /\ trace' = [trace EXCEPT ![t] = Append(@, "rpc")]
    /\ retryErr' = [retryErr EXCEPT ![t] = _jsonrpc_call(net, resp, RetryRequest(req[t]).params)]
    /\ Finish(t, _jsonrpc_call(net, resp, RetryRequest(req[t]).params))
    /\ UNCHANGED << op, wait, req, firstErr, elapsed, output_buffer, opsLeft,
                    svars, hvars, dvars, cvars, fvars, evars, launched, wvars >>

\* stop_uiautomator returns: a recovery goes on to start_uiautomator (line 407)
StopReturn(t) ==
    IF op[t] = "call"
    THEN /\ pc' = [pc EXCEPT ![t] = "start_lock"]
         /\ trace' = [trace EXCEPT ![t] = Append(@, "start")]
         /\ UNCHANGED outcome
    ELSE /\ Finish(t, Return(0))
         /\ UNCHANGED trace

\* start_uiautomator returns: a recovery goes on to the retry (line 408)
StartReturn(t) ==
    IF op[t] = "call"
    THEN /\ pc' = [pc EXCEPT ![t] = "rpc2"]
         /\ UNCHANGED outcome
    ELSE Finish(t, Return(0))

\* ------------------------------------------------------ stop_uiautomator
\* line 388: with self._lock
StopAcquire(t) ==
    /\ pc[t] = "stop_lock"
    /\ lock = NoThread
    /\ lock' = t
    /\ pc' = [pc EXCEPT ![t] = "stop_kill"]
    /\ UNCHANGED << op, wait, req, sent, trace, firstErr, retryErr, outcome, elapsed, output_buffer,
                    opsLeft, _process, hvars, dvars, cvars, fvars, evars, launched, wvars >>

\* after the with block of stop_uiautomator: the wait loop, or return
StopUnlocked(t) ==
    IF wait[t]
    THEN /\ pc' = [pc EXCEPT ![t] = "stop_wait"]
         /\ elapsed' = [elapsed EXCEPT ![t] = 0]
         /\ UNCHANGED << outcome, trace >>
    ELSE /\ StopReturn(t)
         /\ UNCHANGED elapsed

\* kill() that waits for the event without closing the connection
StopKillMutant(t) ==
    /\ pc[t] = "stop_kill"
    /\ IF _process[owner[t]] # 0
       THEN /\ pc' = [pc EXCEPT ![t] = "stop_killwait"]
            /\ UNCHANGED << lock, outcome, trace, elapsed >>
       ELSE /\ lock' = NoThread
            /\ StopUnlocked(t)
    /\ UNCHANGED << op, wait, req, sent, firstErr, retryErr, output_buffer, opsLeft, _process,
                    hvars, dvars, cvars, fvars, evars, launched, wvars >>

\* lines 389-390: if self._process: kill() closes the connection (line 65)
StopKill(t) ==
    /\ pc[t] = "stop_kill"
    /\ IF _process[owner[t]] # 0
       THEN /\ conn' = [conn EXCEPT ![_process[owner[t]]] = "closed"]
            /\ pc' = [pc EXCEPT ![t] = "stop_killwait"]
            /\ UNCHANGED << lock, outcome, trace, elapsed >>
       ELSE /\ lock' = NoThread
            /\ StopUnlocked(t)
            /\ UNCHANGED conn
    /\ UNCHANGED << op, wait, req, sent, firstErr, retryErr, output_buffer, opsLeft, _process,
                    event, output, proc, launches, dvars, cvars, fvars, evars, launched, wvars >>

\* stop_uiautomator that keeps the handle it has killed
StopKillWaitMutant(t) ==
    /\ pc[t] = "stop_killwait"
    /\ lock' = NoThread
    /\ StopUnlocked(t)
    /\ UNCHANGED << op, wait, req, sent, firstErr, retryErr, output_buffer, opsLeft, _process,
                    hvars, dvars, cvars, fvars, evars, launched, wvars >>

\* lines 66 and 391: kill()'s wait() ends, signalled or after its 3 s; the handle is dropped
StopKillWait(t) ==
    /\ pc[t] = "stop_killwait"
    /\ _process' = [_process EXCEPT ![owner[t]] = 0]
    /\ lock' = NoThread
    /\ StopUnlocked(t)
    /\ UNCHANGED << op, wait, req, sent, firstErr, retryErr, output_buffer, opsLeft, hvars, dvars, cvars, fvars, evars, launched, wvars >>

\* lines 394-398: one turn of the wait loop; the health check takes d ticks
StopPoll(t, net, d) ==
    /\ pc[t] = "stop_wait"
    /\ IF DeadlinePassed(elapsed[t], StopTimeoutTicks)
       THEN StopReturn(t) /\ UNCHANGED elapsed
       ELSE IF _check_alive(net).tag = "raise"
       THEN Finish(t, _check_alive(net)) /\ UNCHANGED << trace, elapsed >>
       ELSE IF ~_check_alive(net).value
       THEN StopReturn(t) /\ UNCHANGED elapsed
       ELSE /\ elapsed' = [elapsed EXCEPT ![t] = @ + d + PollTicks]
            /\ UNCHANGED << pc, outcome, trace >>
    /\ UNCHANGED << op, wait, req, sent, firstErr, retryErr, output_buffer, opsLeft, svars, hvars,
                    dvars, cvars, fvars, evars, launched, wvars >>

\* ----------------------------------------------------- start_uiautomator
\* _setup_jar that asks for the hash and never pushes
_setup_jarMutant ==
    /\ shells' = shells + HashShells
    /\ UNCHANGED << jar, pushes >>

\* line 321, _setup_jar: push u2.jar unless the device reports its hash
_setup_jar ==
    /\ shells' = shells + HashShells
    /\ IF _check_device_file_hash
       THEN UNCHANGED << jar, pushes >>
       ELSE jar' = "current" /\ pushes' = pushes + 1

\* start_uiautomator without the lock
StartAcquireMutant(t) ==
    /\ pc[t] = "start_lock"
    /\ lock' = t
    /\ _setup_jar
    /\ pc' = [pc EXCEPT ![t] = "chk_proc"]
    /\ launched' = [launched EXCEPT ![t] = 0]
    /\ UNCHANGED << op, wait, req, sent, trace, firstErr, retryErr, outcome, elapsed,
                    output_buffer, opsLeft, _process, hvars, tools, callers, owner, cvars, fvars, evars, wvars >>

\* lines 320-321: with self._lock, then _setup_jar; the device file is touched
\* by lock holders alone, so taking the lock and the install step are one step
StartAcquire(t) ==
    /\ pc[t] = "start_lock"
    /\ lock = NoThread
    /\ lock' = t
    /\ _setup_jar
    /\ pc' = [pc EXCEPT ![t] = "chk_proc"]
    /\ launched' = [launched EXCEPT ![t] = 0]
    /\ UNCHANGED << op, wait, req, sent, trace, firstErr, retryErr, outcome, elapsed, output_buffer,
                    opsLeft, _process, hvars, tools, callers, owner, cvars, fvars, evars, wvars >>

\* start_uiautomator that keeps the handle of a process that has ended
ChkProcMutant(t) ==
    /\ pc[t] = "chk_proc"
    /\ pc' = [pc EXCEPT ![t] = "start_alive"]
    /\ UNCHANGED << op, wait, req, sent, trace, firstErr, retryErr, outcome, elapsed, output_buffer,
                    opsLeft, lock, _process, hvars, dvars, cvars, fvars, evars, launched, wvars >>

\* lines 322-324: forget a handle whose process has ended
ChkProc(t) ==
    /\ pc[t] = "chk_proc"
    /\ _process' = [_process EXCEPT ![owner[t]] = IF @ # 0 /\ pool(@) # "None" THEN 0 ELSE @]
    /\ pc' = [pc EXCEPT ![t] = "start_alive"]
    /\ UNCHANGED << op, wait, req, sent, trace, firstErr, retryErr, outcome, elapsed, output_buffer,
                    opsLeft, lock, hvars, dvars, cvars, fvars, evars, launched, wvars >>

\* lines 325-326 (and 69-75, 366-367): health check; when not alive, launch
StartAlive(t, net) ==
    /\ pc[t] = "start_alive"
    /\ IF _check_alive(net).tag = "raise"
       THEN /\ lock' = NoThread
            /\ Finish(t, _check_alive(net))
            /\ UNCHANGED << _process, hvars, elapsed, output_buffer, launched >>
       ELSE IF _check_alive(net).value
       THEN /\ lock' = NoThread
            /\ StartReturn(t)
            /\ UNCHANGED << _process, hvars, elapsed, output_buffer, launched >>
       ELSE /\ launches < MaxLaunch
            /\ launches' = launches + 1
            /\ _process' = [_process EXCEPT ![owner[t]] = launches + 1]
            /\ conn' = [conn EXCEPT ![launches + 1] = "open"]
            /\ proc' = [proc EXCEPT ![launches + 1] = "starting"]
            /\ pc' = [pc EXCEPT ![t] = "wait_read"]
            /\ elapsed' = [elapsed EXCEPT ![t] = 0]
            /\ output_buffer' = [output_buffer EXCEPT ![t] = <<>>]
            /\ launched' = [launched EXCEPT ![t] = launches + 1]
            /\ UNCHANGED << lock, outcome, event, output >>
    /\ UNCHANGED << op, wait, req, sent, trace, firstErr, retryErr, opsLeft, dvars, cvars, fvars, evars, wvars >>

\* a readiness wait that is left with the lock still held
WaitLeaveMutant(t) ==
    /\ UNCHANGED lock
    /\ output_buffer' = [output_buffer EXCEPT ![t] = <<>>]

\* _wait_app_process_ready is left, raising or returning: the with block
\* releases the lock and the local output_buffer is gone
WaitLeave(t) ==
    /\ lock' = NoThread
    /\ output_buffer' = [output_buffer EXCEPT ![t] = <<>>]

\* a recovery that goes on to its retry although the readiness wait raised
WaitRaiseMutant(t, e) ==
    /\ WaitLeave(t)
    /\ IF op[t] = "call"
       THEN pc' = [pc EXCEPT ![t] = "rpc2"] /\ UNCHANGED outcome
       ELSE Finish(t, e)

\* lines 371-378: the readiness wait raises e
WaitRaise(t, e) ==
    /\ WaitLeave(t)
    /\ Finish(t, e)

\* lines 368-372: the loop test, the read of the output, the fatal marker
WaitRead(t) ==
    /\ pc[t] = "wait_read"
    /\ IF DeadlinePassed(elapsed[t], launch_timeout)
       THEN WaitRaise(t, Raise(LaunchUiAutomationError, 0, << "server not ready" >>, <<>>,
                               output_buffer[t]))
       ELSE IF Contains(<< "already registered" >>, output[_process[owner[t]]])
       THEN WaitRaise(t, Raise(AccessibilityServiceAlreadyRegisteredError, 0, <<>>, <<>>,
                               output[_process[owner[t]]]))
       ELSE /\ output_buffer' = [output_buffer EXCEPT ![t] = @ \o output[_process[owner[t]]]]
            /\ pc' = [pc EXCEPT ![t] = "wait_pool"]
            /\ UNCHANGED << lock, outcome >>
    /\ UNCHANGED << op, wait, req, sent, trace, firstErr, retryErr, elapsed, opsLeft, _process,
                    hvars, dvars, cvars, fvars, evars, launched, wvars >>

\* a readiness turn that goes to its health check without the pool() test
WaitPoolMutant(t) ==
    /\ pc[t] = "wait_pool"
    /\ pc' = [pc EXCEPT ![t] = "wait_alive"]
    /\ UNCHANGED << op, wait, req, sent, trace, firstErr, retryErr, outcome, elapsed, output_buffer,
                    opsLeft, svars, hvars, dvars, cvars, fvars, evars, launched, wvars >>

\* lines 373-374: the process has ended (pool(), lines 59-62)
WaitPool(t) ==
    /\ pc[t] = "wait_pool"
    /\ IF pool(_process[owner[t]]) # "None"
       THEN WaitRaise(t, Raise(LaunchUiAutomationError, 0, << "server quit unexpectly" >>, <<>>,
                               output_buffer[t]))
       ELSE /\ pc' = [pc EXCEPT ![t] = "wait_alive"]
            /\ UNCHANGED << lock, outcome, output_buffer >>
    /\ UNCHANGED << op, wait, req, sent, trace, firstErr, retryErr, elapsed, opsLeft,
                    _process, hvars, dvars, cvars, fvars, evars, launched, wvars >>

\* lines 375-377: the health check, taking d ticks, and the sleep
WaitAlive(t, net, d) ==
    /\ pc[t] = "wait_alive"
    /\ IF _check_alive(net).tag = "raise"
       THEN WaitRaise(t, _check_alive(net)) /\ UNCHANGED elapsed
       ELSE IF _check_alive(net).value
       THEN /\ WaitLeave(t)
            /\ StartReturn(t)
            /\ UNCHANGED elapsed
       ELSE /\ elapsed' = [elapsed EXCEPT ![t] = @ + d + PollTicks]
            /\ pc' = [pc EXCEPT ![t] = "wait_read"]
            /\ UNCHANGED << lock, outcome, output_buffer >>
    /\ UNCHANGED << op, wait, req, sent, trace, firstErr, retryErr, opsLeft, _process,
                    hvars, dvars, cvars, fvars, evars, launched, wvars >>

\* ----------------------------------------------- the device and the drain
\* the launched server comes up and answers on the port (one that found the
\* accessibility service already registered never does)
ServiceUp(h) ==
    /\ proc[h] = "starting"
    /\ ~alive
    /\ ~Contains(<< "already registered" >>, output[h])
    /\ proc' = [proc EXCEPT ![h] = "serving"]
    /\ UNCHANGED << tvars, svars, event, output, conn, launches, dvars, cvars, fvars, evars, launched, wvars >>

\* a drain thread that puts the chunk it receives in front of the buffer
DrainMutant(h, chunk) ==
    /\ proc[h] \in {"starting", "serving"}
    /\ conn[h] = "open"
    /\ ~event[h]
    /\ Len(output[h]) < chunkCap
    /\ chunk = "already registered" => proc[h] = "starting"
    /\ output' = [output EXCEPT ![h] = << chunk >> \o @]
    /\ UNCHANGED << tvars, svars, event, conn, proc, launches, dvars, cvars, fvars, evars, launched, wvars >>

\* lines 39-41: the drain thread receives a chunk the process wrote
Drain(h, chunk) ==
    /\ proc[h] \in {"starting", "serving"}
    /\ conn[h] = "open"
    /\ ~event[h]
    /\ Len(output[h]) < chunkCap
    /\ chunk = "already registered" => proc[h] = "starting"
    /\ output' = [output EXCEPT ![h] = Append(@, chunk)]
    /\ UNCHANGED << tvars, svars, event, conn, proc, launches, dvars, cvars, fvars, evars, launched, wvars >>

\* the device process ends (it crashes, or the closed connection takes it down)
ProcExit(h) ==
    /\ proc[h] \in {"starting", "serving"}
    /\ proc' = [proc EXCEPT ![h] = "exited"]
    /\ UNCHANGED << tvars, svars, event, output, conn, launches, dvars, cvars, fvars, evars, launched, wvars >>

\* lines 39-44: recv returns nothing or fails; the drain thread sets the event
DrainDone(h) ==
    /\ ~event[h]
    /\ proc[h] = "exited" \/ conn[h] = "closed"
    /\ event' = [event EXCEPT ![h] = TRUE]
    /\ UNCHANGED << tvars, svars, output, conn, proc, launches, dvars, cvars, fvars, evars, launched, wvars >>

Chunks == {"log", "already registered"}
PingTicks == 0..MaxPingTicks

Next ==
    \/ \E t \in Threads : BeginStart(t)
    \/ \E t \in Threads, w \in BOOLEAN : BeginStop(t, w)
    \/ \E t \in Threads, m \in Methods, p \in ParamSets : BeginCall(t, m, p)
    \/ \E t \in Threads, net \in Nets, resp \in MainResponses : Rpc1(t, net, resp)
    \/ \E t \in Threads, net \in Nets, resp \in MainResponses : Rpc2(t, net, resp)
    \/ \E t \in Threads : StopAcquire(t)
    \/ \E t \in Threads : StopKill(t)
    \/ \E t \in Threads : StopKillWait(t)
    \/ \E t \in Threads, net \in PingNets, d \in PingTicks : StopPoll(t, net, d)
    \/ \E t \in Threads : StartAcquire(t)
    \/ \E t \in Threads : ChkProc(t)
    \/ \E t \in Threads, net \in PingNets : StartAlive(t, net)
    \/ \E t \in Threads : WaitRead(t)
    \/ \E t \in Threads : WaitPool(t)
    \/ \E t \in Threads, net \in PingNets, d \in PingTicks : WaitAlive(t, net, d)
    \/ \E h \in Handles : ServiceUp(h)
    \/ \E h \in Handles, c \in Chunks : Drain(h, c)
    \/ \E h \in Handles : ProcExit(h)
    \/ \E h \in Handles : DrainDone(h)

Spec == Init /\ [][Next]_vars

SpecSolo == InitSolo /\ [][Next]_vars

SpecTwo == InitTwo /\ [][Next]_vars

\* the steps of a caller thread inside an operation it has begun
ThreadStep(t) ==
    \/ \E net \in Nets, resp \in MainResponses : Rpc1(t, net, resp)
    \/ \E net \in Nets, resp \in MainResponses : Rpc2(t, net, resp)
    \/ StopAcquire(t)
    \/ StopKill(t)
    \/ StopKillWait(t)
    \/ \E net \in PingNets, d \in PingTicks : StopPoll(t, net, d)
    \/ StartAcquire(t)
    \/ ChkProc(t)
    \/ \E net \in PingNets : StartAlive(t, net)
    \/ WaitRead(t)
    \/ WaitPool(t)
    \/ \E net \in PingNets, d \in PingTicks : WaitAlive(t, net, d)

\* a caller thread inside an operation keeps running: every health check,
\* shell command and push it makes comes back
SpecSoloLive == SpecSolo /\ \A t \in Threads : WF_vars(ThreadStep(t))

\* -------------------------------------------------------- wait runs
\* One caller on a device that holds the current u2.jar; the readiness wait
\* is given a timeout of zero or of LaunchTimeoutTicks.
InitWait ==
    /\ InitSession
    /\ kind = "adb"
    /\ callers = {1}
    /\ owner = [t \in Threads |-> 1]
    /\ jar = "current"
    /\ tools = "toybox"
    /\ cresp = NoResponse
    /\ chunkCap = MaxChunks
    /\ launch_timeout \in {0, LaunchTimeoutTicks}

SpecWait == InitWait /\ [][Next]_vars

\* ------------------------------------------------------- handle runs
\* One caller on a device that holds the current u2.jar; the launched
\* processes write up to MaxHandleChunks chunks each.
InitHandle ==
    /\ InitSession
    /\ kind = "adb"
    /\ callers = {1}
    /\ owner = [t \in Threads |-> 1]
    /\ jar = "current"
    /\ tools = "toybox"
    /\ cresp = NoResponse
    /\ chunkCap = MaxHandleChunks
    /\ launch_timeout = LaunchTimeoutTicks

SpecHandle == InitHandle /\ [][Next]_vars

\* the drain thread of a handle is a daemon thread of its own (lines 34-35):
\* once recv has ended it gets to set the event
SpecHandleLive == SpecHandle /\ \A h \in Handles : WF_vars(DrainDone(h))

\* ------------------------------------------------- classification runs
DataTok == {"x", "UiAutomation not connected"}

\* every decoded body with texts of at most MaxMsgLen tokens
AllResponses ==
    { Response(d, e, r, 7, m, st, 1) :
        d \in BOOLEAN, e \in BOOLEAN, r \in BOOLEAN,
        m \in SeqsUpTo(Tok, MaxMsgLen), st \in {None} \cup SeqsUpTo(DataTok, 1) }

InitClassify ==
    /\ InitSession
    /\ kind = "adb"
    /\ callers = {}
    /\ owner = [t \in Threads |-> 1]
    /\ jar = "current"
    /\ tools = "toybox"
    /\ cresp \in AllResponses
    /\ chunkCap = MaxChunks
    /\ launch_timeout = LaunchTimeoutTicks

\* _jsonrpc_call(method, params) on the response under test
ClassifyStep(net, p) ==
    /\ cout = NoOutcome
    /\ cout' = _jsonrpc_call(net, cresp, p)
    /\ UNCHANGED << tvars, svars, hvars, dvars, cresp, fvars, evars, launched, wvars >>

NextClassify == \E net \in NetEvents, p \in ParamSets : ClassifyStep(net, p)

SpecClassify == InitClassify /\ [][NextClassify]_vars

\* ------------------------------------------------------ wrapper runs
\* The JSONRpcWrapper objects the jsonrpc property of a client hands out
\* (base.py lines 105-121 and 290-306), used by the caller threads: a thread
\* gets a wrapper from the property or from another thread, gets an
\* attribute of it, and calls what it got.

\* attribute names, positional arguments and keyword arguments of the callers
AttrNames == {"deviceInfo", "click"}
ArgSets == { <<>>, << "a" >> }
KwSets == SUBSET {"http_timeout", "x"}

\* http_timeout = kwargs.pop('http_timeout', HTTP_TIMEOUT)
WrapperTimeout(kwargs) == IF "http_timeout" \in kwargs THEN "http_timeout" ELSE "HTTP_TIMEOUT"

\* params = args if args else kwargs, after the pop
WrapperParams(args, kwargs) ==
    IF args # <<>> THEN [seq |-> args, map |-> {}]
    ELSE [seq |-> <<>>, map |-> kwargs \ {"http_timeout"}]

InitWrapper ==
    /\ InitSession
    /\ kind \in {"adb", "wifi"}
    /\ callers = Threads
    /\ owner = [t \in Threads |-> 1]
    /\ jar = "current"
    /\ tools = "toybox"
    /\ cresp = NoResponse
    /\ chunkCap = MaxChunks
    /\ launch_timeout = LaunchTimeoutTicks

\* self.jsonrpc: the property makes a new wrapper, its method None
JsonrpcProperty(t) ==
    /\ wrappers < MaxWrappers
    /\ wrappers' = wrappers + 1
    /\ wobj' = [wobj EXCEPT ![t] = wrappers + 1]
    /\ wvia' = [wvia EXCEPT ![t] = "None"]
    /\ UNCHANGED << tvars, svars, hvars, dvars, cvars, fvars, evars, launched, wmethod, wcall >>

\* the application hands the wrapper object thread t holds to thread u
ShareWrapper(t, u) ==
    /\ t # u
    /\ wobj[t] # 0
    /\ wobj[u] # wobj[t]
    /\ wobj' = [wobj EXCEPT ![u] = wobj[t]]
    /\ wvia' = [wvia EXCEPT ![u] = "None"]
    /\ UNCHANGED << tvars, svars, hvars, dvars, cvars, fvars, evars, launched, wrappers, wmethod,
                    wcall >>

\* JSONRpcWrapper.__getattr__(name): self.method = name; return self
GetAttr(t, name) ==
    /\ wobj[t] # 0
    /\ wmethod' = [wmethod EXCEPT ![wobj[t]] = name]
    /\ wvia' = [wvia EXCEPT ![t] = name]
    /\ UNCHANGED << tvars, svars, hvars, dvars, cvars, fvars, evars, launched, wrappers, wobj,
                    wcall >>

\* JSONRpcWrapper.__call__(*args, **kwargs) on what t got from its wrapper
WrapperCall(t, args, kwargs) ==
    /\ wobj[t] # 0
    /\ wvia[t] # "None"
    /\ wcall' = Call(wvia[t], args, kwargs, wmethod[wobj[t]], WrapperParams(args, kwargs),
                     WrapperTimeout(kwargs))
    /\ UNCHANGED << tvars, svars, hvars, dvars, cvars, fvars, evars, launched, wrappers, wmethod,
                    wobj, wvia >>

NextWrapper ==
    \/ \E t \in Threads : JsonrpcProperty(t)
    \/ \E t, u \in Threads : ShareWrapper(t, u)
    \/ \E t \in Threads, name \in AttrNames : GetAttr(t, name)
    \/ \E t \in Threads, args \in ArgSets, kwargs \in KwSets : WrapperCall(t, args, kwargs)

SpecWrapper == InitWrapper /\ [][NextWrapper]_vars

\* ------------------------------------------------------- facade runs
\* One session of either kind, driven by one caller, one operation after the
\* other.  A direct-network session (WiFiUiautomatorServer, _WiFiBaseClient)
\* runs its whole surface; of a bridged session the runs take the
\* operations that do not touch the lifecycle: the health check and the file
\* transfers of _BaseClient.

\* exchanges and bridge calls one facade run may make
MaxIO == 2

\* self._dev: None on a direct-network session (base.py line 28), the adb
\* device on a bridged one (base.py lines 134-139)
Dev(k) == IF k = "wifi" THEN "None" ELSE "AdbDevice"

\* base.py lines 342 and 353: not hasattr(self, '_dev') or self._dev is None
NoDeviceMutant(dev) == FALSE
NoDevice(dev) == dev = "None"

\* WiFiUiautomatorServer._check_alive: True, or ConnectError
WiFi_check_alive(net) ==
    IF _http_request(net).tag = "return" THEN Return(TRUE)
    ELSE RaiseK(ConnectError)

\* __exit__ that closes the connection of an exchange that ended well only
__exit__Mutant(sock, raised) == IF raised THEN sock ELSE "closed"
\* lines 105-106 and 126-127: __exit__ closes the connection, whatever left the with block
__exit__(sock, raised) == "closed"

\* lines 177-195: the connection made for one exchange, as `with conn:` leaves it;
\* connect (lines 96-100, 117-122) gives it its socket unless the connect fails
HttpConnection(net) ==
    __exit__(IF net = "connect_fail" THEN "unconnected" ELSE "connected",
             _http_request(net).tag = "raise")

\* the wire after an exchange: a request goes out once the connection is made
Sent(net, r) == IF net = "connect_fail" THEN wire ELSE Append(wire, r)

\* the session may still do I/O
IOLeft == Len(conns) + bridge < MaxIO

MethodsF == {"deviceInfo", "click"}
ParamSetsF == { None, <<>>, << "a" >> }

\* what the service may answer in a facade run
FacadeResponses ==
    MainResponses \cup
        { Response(TRUE, FALSE, TRUE, 0, <<>>, None, 2),
          Response(TRUE, TRUE, TRUE, 5, << "x" >>, << "x" >>, 2),
          Response(TRUE, FALSE, FALSE, 0, <<>>, None, 0) }

InitFacade ==
    /\ InitSession
    /\ kind \in {"adb", "wifi"}
    /\ callers = {}
    /\ owner = [t \in Threads |-> 1]
    /\ jar = "current"
    /\ tools = "toybox"
    /\ cresp = NoResponse
    /\ chunkCap = MaxChunks
    /\ launch_timeout = LaunchTimeoutTicks

\* self._check_alive() of the session, by its kind
Probe(net) ==
    /\ IOLeft
    /\ wire' = Sent(net, PingRequest)
    /\ conns' = Append(conns, HttpConnection(net))
    /\ fop' = Fop("probe", "", <<>>, net, NoResponse)
    /\ fout' = (IF kind = "wifi" THEN WiFi_check_alive(net) ELSE _check_alive(net))
    /\ UNCHANGED << tvars, svars, hvars, dvars, cvars, evars, launched, wvars, kind, bridge >>

\* WiFiUiautomatorServer.start_uiautomator with the lifecycle of the bridged session
WiFiStartMutant(net) ==
    /\ kind = "wifi"
    /\ IOLeft
    /\ wire' = Sent(net, PingRequest)
    /\ conns' = Append(conns, HttpConnection(net))
    /\ fop' = Fop("start", "", <<>>, net, NoResponse)
    /\ fout' = Return(0)
    /\ pushes' = pushes + 1
    /\ UNCHANGED << tvars, svars, hvars, jar, tools, callers, owner, shells, cvars, evars, launched, wvars, kind, bridge >>

\* WiFiUiautomatorServer.start_uiautomator (lines 277-279)
WiFiStart(net) ==
    /\ kind = "wifi"
    /\ IOLeft
    /\ wire' = Sent(net, PingRequest)
    /\ conns' = Append(conns, HttpConnection(net))
    /\ fop' = Fop("start", "", <<>>, net, NoResponse)
    /\ fout' = (IF WiFi_check_alive(net).tag = "raise" THEN WiFi_check_alive(net) ELSE Return(0))
    /\ UNCHANGED << tvars, svars, hvars, dvars, cvars, evars, launched, wvars, kind, bridge >>

\* WiFiUiautomatorServer.stop_uiautomator (lines 281-283)
WiFiStop(w) ==
    /\ kind = "wifi"
    /\ fop' = Fop("stop", "", <<>>, "", NoResponse)
    /\ fout' = Return(0)
    /\ UNCHANGED << tvars, svars, hvars, dvars, cvars, evars, launched, wvars, kind, wire, bridge, conns >>

\* WiFiUiautomatorServer.jsonrpc_call with the retry of the bridged session
WiFiCallMutant(m, p, net, resp) ==
    /\ kind = "wifi"
    /\ IOLeft
    /\ fop' = Fop("call", m, p, net, resp)
    /\ fout' = _jsonrpc_call(net, resp, p)
    /\ IF Recoverable(_jsonrpc_call(net, resp, p))
       THEN /\ wire' = Sent(net, RpcRequest(m, p)) \o << PingRequest, RpcRequest(m, p) >>
            /\ conns' = conns \o << HttpConnection(net), HttpConnection(net), HttpConnection(net) >>
       ELSE /\ wire' = Sent(net, RpcRequest(m, p))
            /\ conns' = Append(conns, HttpConnection(net))
    /\ UNCHANGED << tvars, svars, hvars, dvars, cvars, evars, launched, wvars, kind, bridge >>

\* WiFiUiautomatorServer.jsonrpc_call (lines 285-287)
WiFiCall(m, p, net, resp) ==
    /\ kind = "wifi"
    /\ IOLeft
    /\ wire' = Sent(net, RpcRequest(m, p))
    /\ conns' = Append(conns, HttpConnection(net))
    /\ fop' = Fop("call", m, p, net, resp)
    /\ fout' = _jsonrpc_call(net, resp, p)
    /\ UNCHANGED << tvars, svars, hvars, dvars, cvars, evars, launched, wvars, kind, bridge >>

\* push / pull of a session (base.py lines 330-358): the guard, then the bridge
Transfer(name) ==
    /\ fop' = Fop(name, "", <<>>, "", NoResponse)
    /\ IF NoDevice(Dev(kind))
       THEN /\ fout' = RaiseK(DeviceError)
            /\ UNCHANGED bridge
       ELSE /\ IOLeft
            /\ bridge' = bridge + 1
            /\ fout' = Return(0)
    /\ UNCHANGED << tvars, svars, hvars, dvars, cvars, evars, launched, wvars, kind, wire, conns >>

Push == Transfer("push")

Pull == Transfer("pull")

\* install of a package on the session
Install ==
    /\ fop' = Fop("install", "", <<>>, "", NoResponse)
    /\ IF kind = "wifi"
       THEN /\ fout' = RaiseK(DeviceError)
            /\ UNCHANGED bridge
       ELSE /\ IOLeft
            /\ bridge' = bridge + 1
            /\ fout' = Return(0)
    /\ UNCHANGED << tvars, svars, hvars, dvars, cvars, evars, launched, wvars, kind, wire, conns >>

NextFacade ==
    \/ \E net \in PingEvents : Probe(net)
    \/ \E net \in PingEvents : WiFiStart(net)
    \/ \E w \in BOOLEAN : WiFiStop(w)
    \/ \E m \in MethodsF, p \in ParamSetsF, net \in NetEvents, resp \in FacadeResponses :
            WiFiCall(m, p, net, resp)
    \/ Push
    \/ Pull
    \/ Install

SpecFacade == InitFacade /\ [][NextFacade]_vars

\* ================================================================ claims
\* thread t has finished an operation and holds its result
Done(t) == pc[t] = "idle" /\ outcome[t].tag # "none"

\* the exchange of a classification run returned a body
Answered == cout.tag # "none" /\ cout.kind \notin {HTTPError, SocketTimeout}

\* the kind the classification table of the claim gives an error response
TableKind(resp) ==
    IF Contains(<< "UiAutomation not connected" >>, RawText(resp))
        THEN UiAutomationNotConnectedError
    ELSE IF Contains(<< "android.os.", "DeadObjectException" >>, resp.message)
        THEN UiAutomationNotConnectedError
    ELSE IF Contains(<< "android.os.", "DeadSystemRuntimeException" >>, resp.message)
        THEN UiAutomationNotConnectedError
    ELSE IF Contains(<< "UiObjectNotFoundException" >>, resp.message)
        THEN UiObjectNotFoundError
    ELSE IF Contains(<< "StackOverflowError" >>, resp.message)
        THEN RPCStackOverflowError
    ELSE RPCUnknownError

\* the exception names of the message are the fully qualified ones the service
\* sends, on which the substrings of the table and those of the code agree
Qualified(m) ==
    /\ Contains(<< "UiObjectNotFoundException" >>, m)
        => Contains(<< "uiautomator.", "UiObjectNotFoundException" >>, m)
    /\ Contains(<< "StackOverflowError" >>, m)
        => Contains(<< "java.lang.", "StackOverflowError" >>, m)

\* C10: every error response is classified by the first matching row of the
\* table (raw text "UiAutomation not connected", DeadObjectException,
\* DeadSystemRuntimeException -> UiAutomationNotConnected;
\* "UiObjectNotFoundException" -> UiObjectNotFound with code, message and the
\* original params; "StackOverflowError" -> RpcStackOverflow; otherwise
\* RpcUnknown with code, message and stacktrace).
C10_ClassificationTable ==
    (Answered /\ cresp.isdict /\ cresp.haserr /\ Qualified(cresp.message)) =>
        /\ cout.tag = "raise"
        /\ cout.kind = TableKind(cresp)
        /\ cout.kind = UiObjectNotFoundError =>
            /\ cout.code = cresp.code
            /\ cout.message = cresp.message
            /\ cout.params \in ParamSets
        /\ cout.kind = RPCUnknownError =>
            /\ cout.code = cresp.code
            /\ cout.message = cresp.message
            /\ cout.stacktrace = cresp.data

\* ------------------------------------------------------------- recovery
Cycle == << "rpc", "stop", "start", "rpc" >>

IsPrefix(a, b) == Len(a) <= Len(b) /\ SubSeq(b, 1, Len(a)) = a

\* the first attempt of t's jsonrpc_call failed with UiAutomationNotConnected
FirstNotConnected(t) ==
    op[t] = "call" /\ firstErr[t].kind = UiAutomationNotConnectedError

\* errors that stop_uiautomator and start_uiautomator let out
LifecycleErrors ==
    { SocketTimeout, LaunchUiAutomationError, AccessibilityServiceAlreadyRegisteredError }

\* C1 as stated: after a first attempt failing with UiAutomationNotConnected the
\* call performs exactly one stop, then one start, then one retry of the same
\* method and params, and never more than two attempts.
C1_ExactlyOneCycle ==
    \A t \in Threads :
        FirstNotConnected(t) =>
            /\ IsPrefix(trace[t], Cycle)
            /\ Len(sent[t]) <= 2
            /\ Done(t) => trace[t] = Cycle /\ sent[t] = << req[t], req[t] >>

\* C1 amended: exactly one stop; then, if stop returned, exactly one start;
\* then, if start returned, exactly one retry of the same method and params,
\* whose outcome is the outcome of the call; a stop or start that raises ends
\* the call with that error and without a retry; never more than two attempts
\* and never a second stop or start.
C1_BoundedRecovery ==
    \A t \in Threads :
        FirstNotConnected(t) =>
            /\ IsPrefix(trace[t], Cycle)
            /\ Len(trace[t]) >= 2
            /\ Len(sent[t]) = (IF trace[t] = Cycle THEN 2 ELSE 1)
            /\ \A i \in 1..Len(sent[t]) : sent[t][i] = req[t]
            /\ Done(t) =>
                IF trace[t] = Cycle
                THEN outcome[t] = retryErr[t]
                ELSE outcome[t].tag = "raise" /\ outcome[t].kind \in LifecycleErrors

\* a call whose retry failed too, with another error than the first attempt
C1_Witness ==
    \E t \in Threads :
        /\ FirstNotConnected(t) /\ Done(t)
        /\ trace[t] = Cycle
        /\ outcome[t].tag = "raise"
        /\ outcome[t].kind = RPCUnknownError

\* the exchange exceeded its timeout: what _http_request lets out of it
ExceededTimeout(o) == o.kind \in {HTTPTimeoutError, SocketTimeout}

\* C2: a first attempt failing with HttpError, with HttpTimeoutError (an
\* exchange that exceeded its timeout) or with UiAutomationNotConnected is
\* followed by the recovery cycle, not by the propagation of that error.
C2_RecoveryTriggers ==
    \A t \in Threads :
        ( /\ op[t] = "call"
          /\ firstErr[t].tag = "raise"
          /\ \/ firstErr[t].kind \in {HTTPError, UiAutomationNotConnectedError}
             \/ ExceededTimeout(firstErr[t]) )
        => Len(trace[t]) >= 2 /\ trace[t][2] = "stop"

NonRecoverable ==
    { UiObjectNotFoundError, RPCStackOverflowError, RPCUnknownError, RPCInvalidError }

\* C3: a first attempt failing with UiObjectNotFound, RpcStackOverflow,
\* RpcUnknown or RpcInvalid ends the call with that error at once: no stop, no
\* start, no second attempt, and the step leaves the process handle, the lock
\* and the processes as they were.
C3_NonRecoverablePropagate ==
    /\ [](\A t \in Threads :
            (op[t] = "call" /\ firstErr[t].kind \in NonRecoverable) =>
                /\ Done(t)
                /\ outcome[t] = firstErr[t]
                /\ trace[t] = << "rpc" >>
                /\ Len(sent[t]) = 1)
    /\ [][\A t \in Threads :
            (pc[t] = "rpc1" /\ firstErr'[t].kind \in NonRecoverable) =>
                UNCHANGED << svars, hvars, dvars >>]_vars

\* a call that ended with UiObjectNotFound while the session held a handle
C3_Witness ==
    \E t \in Threads :
        /\ op[t] = "call" /\ Done(t)
        /\ firstErr[t].kind = UiObjectNotFoundError
        /\ _process[owner[t]] # 0

\* ------------------------------------------------------------ lifecycle
\* t is inside the install-or-launch sequence of start_uiautomator
InSequence(t) == pc[t] \in {"chk_proc", "start_alive", "wait_read", "wait_pool", "wait_alive"}

\* t is inside the kill step of stop_uiautomator
InKill(t) == pc[t] \in {"stop_kill", "stop_killwait"}

\* C4: at most one thread is inside an install-or-launch sequence, and no
\* thread is in the kill step of stop while another is inside that sequence.
C4_LifecycleExclusion ==
    /\ Cardinality({t \in Threads : InSequence(t) \/ InKill(t)}) <= 1
    /\ \A t \in Threads : (InSequence(t) \/ InKill(t)) => lock = t

\* a thread waits for the readiness of its launch while another is held up at
\* the lock of stop_uiautomator
C4_Witness ==
    \E t, u \in Threads : pc[t] = "wait_alive" /\ pc[u] = "stop_lock"

\* every thread has called start_uiautomator once, and nothing else was called
AllCalledStart == (\A t \in Threads : op[t] = "start") /\ opsLeft + NThreads = MaxOps

C6_AtMostOnePush == pushes <= 1

\* C6 amended: on a device with a hash tool (toybox md5sum, or md5 as the
\* fallback) at most one push is ever performed, and once a push has happened
\* the hash check matches, so every later start skips the push.
C6_IdempotentInstall ==
    tools # "none" =>
        /\ pushes <= 1
        /\ pushes = 1 => _check_device_file_hash

\* the second start of a session on a device that has md5 only: the first start
\* pushed and launched, this one has made its hash check and has not pushed
C6_Witness ==
    /\ tools = "md5"
    /\ op[1] = "start" /\ pc[1] = "chk_proc"
    /\ launches >= 1
    /\ pushes = 1

\* t's start is in its readiness wait
InWait(t) == pc[t] \in {"wait_read", "wait_pool", "wait_alive"}

\* C7: if the output of the launched process contains "already registered"
\* before the launch deadline, start fails with
\* AccessibilityAlreadyRegistered: a readiness wait that ends before the
\* deadline while the output holds the marker, its health checks having
\* completed, ends with that error.
C7_FatalMarker ==
    [][\A t \in Threads :
        ( /\ InWait(t)
          /\ ~DeadlinePassed(elapsed[t], LaunchTimeoutTicks)
          /\ Contains(<< "already registered" >>, output[_process[owner[t]]])
          /\ ~InWait(t)'
          /\ outcome'[t].kind # SocketTimeout )
        => /\ outcome'[t].tag = "raise"
           /\ outcome'[t].kind = AccessibilityServiceAlreadyRegisteredError]_vars

\* t's start ended with the launch timeout
TimedOut(t) ==
    /\ Done(t)
    /\ outcome[t].kind = LaunchUiAutomationError
    /\ outcome[t].message = << "server not ready" >>

\* C8 as stated: the launch timeout is raised no earlier than the configured
\* wait and no later than the wait plus one poll interval.
C8_WithinOnePoll ==
    \A t \in Threads :
        TimedOut(t) =>
            /\ elapsed[t] >= LaunchTimeoutTicks
            /\ elapsed[t] <= LaunchTimeoutTicks + PollTicks

\* C8 amended: the launch timeout is raised no earlier than the configured wait
\* and earlier than the wait plus one poll interval plus the duration of the
\* longest health check (the last turn begins before the deadline and takes a
\* health check and a sleep).
C8_TimeoutBound ==
    \A t \in Threads :
        TimedOut(t) =>
            /\ elapsed[t] >= LaunchTimeoutTicks
            /\ elapsed[t] < LaunchTimeoutTicks + PollTicks + MaxPingTicks

\* a launch timeout raised exactly one poll interval after the deadline
C8_Witness ==
    \E t \in Threads : TimedOut(t) /\ elapsed[t] = LaunchTimeoutTicks + PollTicks

\* C9: when a turn of the readiness wait finds the process ended (the drain
\* thread has set the event) and no fatal marker in its output, start fails
\* in that turn with "server quit unexpectly": the turn goes from the read of
\* the output to the pool() test and from there to the error, with no health
\* check and no sleep.
C9_PrematureExit ==
    [][\A t \in Threads :
        /\ ( /\ pc[t] = "wait_read"
             /\ ~DeadlinePassed(elapsed[t], LaunchTimeoutTicks)
             /\ event[_process[owner[t]]]
             /\ ~Contains(<< "already registered" >>, output[_process[owner[t]]])
             /\ pc'[t] # "wait_read" )
           => pc'[t] = "wait_pool"
        /\ ( /\ pc[t] = "wait_pool"
             /\ event[_process[owner[t]]]
             /\ pc'[t] # "wait_pool" )
           => /\ pc'[t] = "idle"
              /\ outcome'[t].kind = LaunchUiAutomationError
              /\ outcome'[t].message = << "server quit unexpectly" >>
              /\ elapsed'[t] = elapsed[t]]_vars

\* a start that failed with "server quit unexpectly" before the deadline
C9_Witness ==
    \E t \in Threads :
        /\ Done(t)
        /\ outcome[t].kind = LaunchUiAutomationError
        /\ outcome[t].message = << "server quit unexpectly" >>
        /\ ~DeadlinePassed(elapsed[t], LaunchTimeoutTicks)

\* ----------------------------------------------------- malformed responses
\* the response under test is not a mapping, or a mapping with neither key
Malformed(resp) == ~resp.isdict \/ (~resp.haserr /\ ~resp.hasres)

\* C11: a decoded response that is not a mapping, or a mapping with neither
\* `result` nor `error`, makes the call fail with RPCInvalidError; a mapping
\* with `error` is never reported as RPCInvalidError.
C11_MalformedInvalid ==
    Answered =>
        /\ Malformed(cresp) => cout.tag = "raise" /\ cout.kind = RPCInvalidError
        /\ (cresp.isdict /\ cresp.haserr) => cout.kind # RPCInvalidError

\* a mapping with neither key was answered and reported as RPCInvalidError
C11_Witness ==
    /\ Answered
    /\ cresp.isdict /\ ~cresp.haserr /\ ~cresp.hasres
    /\ cout.kind = RPCInvalidError

\* --------------------------------------------------------- facade runs
\* the response is a mapping with a `result` field and no `error` field
Success(resp) == resp.isdict /\ resp.hasres /\ ~resp.haserr

\* C12: a call whose exchange takes place puts exactly one request on the
\* wire, a POST to /jsonrpc/0 whose body is the envelope with jsonrpc "2.0"
\* and the method and params of the call unchanged; when the answer is a
\* mapping with `result` and without `error` the call returns that result.
C12_SuccessfulCall ==
    [][(fop'.name = "call" /\ wire' # wire) =>
        /\ Len(wire') = Len(wire) + 1
        /\ SubSeq(wire', 1, Len(wire)) = wire
        /\ wire'[Len(wire')].verb = "POST"
        /\ wire'[Len(wire')].path = "/jsonrpc/0"
        /\ wire'[Len(wire')].body.jsonrpc = "2.0"
        /\ wire'[Len(wire')].body.method = fop'.method
        /\ wire'[Len(wire')].body.params = fop'.params
        /\ (fop'.net = "200" /\ Success(fop'.resp)) => fout' = Return(fop'.resp.result)]_vars

\* click("a") was answered with the result 2 and returned it
C12_Witness ==
    /\ fop.name = "call" /\ fop.method = "click" /\ fop.params = << "a" >>
    /\ wire = << [verb |-> "POST", path |-> "/jsonrpc/0",
                  body |-> [jsonrpc |-> "2.0", id |-> 1, method |-> "click",
                            params |-> << "a" >>]] >>
    /\ fout = Return(2)

\* the RPC requests the session has sent, in order
Rpcs == SelectSeq(wire, LAMBDA r : r.path = "/jsonrpc/0")

\* C13 as stated: the id of the k-th RPC request of the session is k.
C13_IncreasingIds == \A k \in 1..Len(Rpcs) : Rpcs[k].body.id = k

\* C13 amended: every RPC request of the session carries the id 1.
C13_ConstantId == \A k \in 1..Len(Rpcs) : Rpcs[k].body.id = 1

\* the session has sent two RPC requests
C13_Witness == Len(Rpcs) = 2 /\ Rpcs[2].body.id = 1

C15_DirectLifecycle ==
    [][kind = "wifi" =>
        /\ fop'.name = "start" =>
            /\ wire' = (IF fop'.net = "connect_fail" THEN wire ELSE Append(wire, PingRequest))
            /\ UNCHANGED << bridge, svars, hvars, jar, pushes >>
        /\ fop'.name = "stop" =>
            /\ fout' = Return(0)
            /\ UNCHANGED << wire, bridge, svars, hvars, jar, pushes >>]_vars

\* a stop after a start whose health check was answered
C15_Witness ==
    /\ kind = "wifi"
    /\ fop.name = "stop"
    /\ wire = << PingRequest >>
    /\ pushes = 0 /\ launches = 0

\* C16: in both session kinds the health check reports alive exactly when
\* the answer is 200 with the body pong; any other outcome (another status,
\* another body, a failed connection, a timeout) is the verdict not-alive,
\* never an error raised out of the check.
C16_HealthVerdict ==
    fop.name = "probe" => fout = Return(fop.net = "200")

\* ------------------------------------------------- lifecycle, continued
\* C17 as stated: a start called while the service answers the health check
\* performs no install step (no hash query, no push) and no launch.
C17_NoOpWhenAlive ==
    [][\A t \in Threads :
        (pc[t] = "start_lock" /\ alive /\ pc'[t] # "start_lock")
            => UNCHANGED << shells, pushes, launches >>]_vars

\* C17 amended: start always performs the install step first (a hash query,
\* and a push exactly when the device does not report the hash of the file);
\* when the service answers the health check that follows, start performs no
\* launch and no readiness wait; a launch, followed by the readiness wait,
\* happens only when that health check finds the service not alive.
C17_InstallThenCheck ==
    [][\A t \in Threads :
        /\ (pc[t] = "start_lock" /\ pc'[t] # "start_lock") =>
            /\ shells' > shells
            /\ pushes' = (IF _check_device_file_hash THEN pushes ELSE pushes + 1)
            /\ launches' = launches
        /\ (pc[t] = "start_alive" /\ alive /\ pc'[t] # "start_alive") =>
            /\ UNCHANGED << shells, pushes, launches >>
            /\ ~InWait(t)'
        /\ (InWait(t)' /\ ~InWait(t)) =>
            /\ pc[t] = "start_alive" /\ ~alive
            /\ launches' = launches + 1]_vars

\* a second start, made while the service of the first was alive, has returned
C17_Witness ==
    \E t \in Threads :
        /\ op[t] = "start" /\ Done(t) /\ outcome[t].tag = "return"
        /\ alive
        /\ launches = 1 /\ shells >= 2 /\ opsLeft = 0

\* t's stop_uiautomator has returned to its caller
StopReturned(t) == op[t] = "stop" /\ Done(t) /\ outcome[t].tag = "return"

C19_PerSessionLock ==
    \A u \in Threads :
        pc[u] \in {"start_lock", "stop_lock"} =>
            (lock = NoThread \/ lock = u \/ owner[lock] = owner[u])

\* C20: an RPC attempt neither holds nor waits for the lock: a thread at an
\* attempt does not hold it, the attempt can be made whoever holds it, the
\* step of an attempt leaves the lock as it is, and the lock is taken only at
\* the entry of stop and start.
C20_RpcUnlocked ==
    /\ [](\A t \in Threads :
            /\ pc[t] \in {"rpc1", "rpc2"} => lock # t
            /\ pc[t] = "rpc1" => ENABLED (\E net \in Nets, resp \in MainResponses : Rpc1(t, net, resp)))
    /\ [][\A t \in Threads :
            /\ Len(sent'[t]) > Len(sent[t]) => lock' = lock
            /\ (lock' = t /\ lock # t) => pc[t] \in {"stop_lock", "start_lock"}]_vars

\* a call was answered while the other thread held the lock in the readiness
\* wait of its start
C20_Witness ==
    \E t, u \in Threads :
        /\ t # u
        /\ lock = u /\ op[u] = "start" /\ pc[u] = "wait_alive"
        /\ op[t] = "call" /\ Done(t) /\ firstErr[t].tag = "return"
        /\ opsLeft = 0

\* the process launched for handle h is still running: it has not ended and
\* no kill() has closed its connection
Running(h) == proc[h] \in {"starting", "serving"} /\ conn[h] = "open"

\* C21: the session never has more than one launched process that is still
\* running.  A handle is created with its process running, so creating one
\* while the session holds a handle of a running process breaks this at once.
C21_OneRunning ==
    Cardinality({h \in Handles : Running(h)}) <= 1

\* C22: the output buffer of a handle only grows, by chunks appended in the
\* order they arrive: every step leaves each buffer a prefix of what it
\* becomes, and a step that changes a buffer appends one chunk to it.
C22_AppendOnly ==
    [][\A h \in Handles :
          /\ IsPrefix(output[h], output'[h])
          /\ output'[h] # output[h] => Len(output'[h]) = Len(output[h]) + 1]_vars

\* a buffer that has grown twice, by two different chunks
C22_Witness ==
    \E h \in Handles : Len(output[h]) = 2 /\ output[h][1] # output[h][2]

\* the stream of handle h has ended: its process is gone, or kill() has
\* closed the connection (recv then returns nothing or fails)
StreamEnded(h) == proc[h] = "exited" \/ conn[h] = "closed"

\* C23: the drain task of a handle signals completion once its stream has
\* ended (end of stream, read error, connection closed by kill), and only
\* then; pool() reports a terminal status exactly when the signal is set;
\* once set, the signal is never reset and the buffer never changes; kill()
\* closes the connection before it waits, and its wait can always end.
C23_Completion ==
    /\ \A h \in Handles : StreamEnded(h) ~> event[h]
    /\ [](\A h \in Handles : (pool(h) # "None") <=> event[h])
    /\ [][\A h \in Handles :
            /\ (event'[h] /\ ~event[h]) => StreamEnded(h)
            /\ event[h] => (event'[h] /\ output'[h] = output[h])]_vars
    /\ [](\A t \in Threads :
            pc[t] = "stop_killwait" =>
                /\ conn[_process[owner[t]]] = "closed"
                /\ ENABLED StopKillWait(t))

\* stop has killed a handle that had drained output, and its signal is set
C23_Witness ==
    \E h \in Handles, t \in Threads :
        /\ conn[h] = "closed" /\ event[h] /\ output[h] # <<>>
        /\ op[t] = "stop" /\ Done(t)

\* C24: an exchange whose read exceeds the configured timeout ends with
\* HTTPTimeoutError: a call whose exchange timed out raises that kind.
C24_TimeoutClassified ==
    (fop.name = "call" /\ fop.net = "timeout") =>
        (fout.tag = "raise" /\ fout.kind = HTTPTimeoutError)

\* C25: every exchange runs on a connection of its own, and that connection
\* is closed once the exchange is over, however it ended: each request put
\* on the wire comes with one new connection, the connections of earlier
\* exchanges are left as they were, and no connection stays open.
C25_ConnectionPerCall ==
    /\ [](\A i \in 1..Len(conns) : conns[i] = "closed")
    /\ [](Len(wire) <= Len(conns))
    /\ [][/\ IsPrefix(conns, conns')
          /\ Len(wire') > Len(wire) => Len(conns') = Len(conns) + 1]_vars

\* two exchanges are over, the last with an error raised inside the with block
C25_Witness ==
    /\ Len(conns) = 2 /\ Len(wire) = 2
    /\ fop.net \in {"non200", "timeout"}
    /\ fout.tag = "raise"

\* C26: the install step of a start queries the remote hash with the primary
\* tool, queries the secondary tool exactly when the device reports the
\* primary as not found, and pushes the artifact exactly when the last
\* query did not report the hash of the local file (the device file is
\* stale, or neither tool is there to report it).
C26_HashCheckedPush ==
    [][\A t \in Threads :
          (pc[t] = "start_lock" /\ pc'[t] = "chk_proc") =>
              /\ shells' = shells + (IF tools = "toybox" THEN 1 ELSE 2)
              /\ pushes' = pushes + (IF jar = "current" /\ tools # "none" THEN 0 ELSE 1)
              /\ jar' = "current"]_vars

\* on a device without toybox the install step asked both tools and, the
\* second reporting the local hash, pushed nothing
C26_Witness ==
    /\ tools = "md5" /\ shells = 2 /\ pushes = 0
    /\ \E t \in Threads : pc[t] = "chk_proc"

\* the step is start_uiautomator of t returning normally (to its caller, or
\* to the recovery that called it)
StartReturns(t) ==
    /\ InSequence(t)
    /\ pc'[t] = "rpc2" \/ (pc'[t] = "idle" /\ outcome'[t].tag = "return")

\* the errors the readiness wait raises by itself
LaunchErrors == {LaunchUiAutomationError, AccessibilityServiceAlreadyRegisteredError}

\* C27: within one start the install check is over before the launch, the
\* launch is made before the first health check of the readiness wait, and
\* start returns normally only from a health check that found the service
\* alive; a wait that ends on the timeout, the fatal marker or the end of
\* the process raises a launch error, and no wait ends without a confirmed
\* health check other than by raising.
C27_LaunchOrdering ==
    /\ [](\A t \in Threads :
            /\ InSequence(t) => jar = "current"
            /\ InWait(t) => (_process[owner[t]] = launches /\ launches > 0))
    /\ [][\A t \in Threads :
            /\ launches' > launches => (InSequence(t) => pc[t] = "start_alive")
            /\ (~InWait(t) /\ InWait(t)') => (pc[t] = "start_alive" /\ launches' = launches + 1)
            /\ StartReturns(t) => (pc[t] \in {"start_alive", "wait_alive"} /\ alive)
            /\ (pc[t] \in {"wait_read", "wait_pool"} /\ ~InWait(t)') =>
                    (pc'[t] = "idle" /\ outcome'[t].tag = "raise" /\ outcome'[t].kind \in LaunchErrors)
            /\ (InWait(t) /\ ~InWait(t)' /\ ~StartReturns(t)) => outcome'[t].tag = "raise"]_vars

\* a start has pushed the artifact, launched a process and returned after
\* its readiness wait found the service alive
C27_Witness ==
    \E t \in Threads :
        /\ op[t] = "start" /\ Done(t) /\ outcome[t].tag = "return"
        /\ pushes = 1 /\ launches = 1 /\ alive /\ opsLeft = MaxOps - 1

\* C28: the output a launch-failed or timeout error carries is the output
\* buffer of the handle at the failure, every drained chunk once and in
\* order: what the error of a failed readiness wait carries is the buffer
\* of the launched handle, short at most of chunks drained since the wait
\* last read it.
C28_DiagnosticOutput ==
    [][\A t \in Threads :
          (InWait(t) /\ pc'[t] = "idle" /\ outcome'[t].tag = "raise"
                /\ outcome'[t].kind \in LaunchErrors) =>
              IsPrefix(outcome'[t].stacktrace, output[_process[owner[t]]])]_vars

\* C29: the stack-overflow error carries the first TruncLen and the last
\* TruncLen characters of the response's data joined by the separator, no
\* character twice: it starts with the head of the data and is never longer
\* than the data plus the separator, whatever the length of the data.
C29_Truncation ==
    (cout.tag = "raise" /\ cout.kind = RPCStackOverflowError) =>
        /\ IsPrefix(Take(cresp.data, TruncLen), cout.stacktrace)
        /\ Len(cout.stacktrace) <= Len(cresp.data) + 1

\* t is inside the with self._lock block of start or of stop
Locked(t) == InSequence(t) \/ InKill(t)

\* the next step of a thread inside a with self._lock block
LockedStep(t) ==
    \/ StopKill(t)
    \/ StopKillWait(t)
    \/ ChkProc(t)
    \/ \E net \in PingNets : StartAlive(t, net)
    \/ WaitRead(t)
    \/ WaitPool(t)
    \/ \E net \in PingNets, d \in PingTicks : WaitAlive(t, net, d)

\* C30: a thread holds the lock only inside the with blocks of start and
\* stop, and the step on which it leaves one, returning or raising, leaves
\* the lock free; no thread comes to acquire the lock while it holds it; and
\* the callers are never all blocked on the lock: whoever holds it is inside
\* a with block and can take its next step.
C30_LockRelease ==
    /\ [](\A t \in Threads :
            /\ lock = t => (Locked(t) /\ ENABLED LockedStep(t))
            /\ pc[t] \in {"start_lock", "stop_lock"} => lock # t)
    /\ [](lock # NoThread => \E t \in callers : pc[t] \notin {"start_lock", "stop_lock"})
    /\ [][\A t \in Threads : (Locked(t) /\ ~Locked(t)') => lock' = NoThread]_vars

\* the start of one thread has raised out of its readiness wait, and the
\* other thread has taken the lock after it
C30_Witness ==
    \E t, u \in Threads :
        /\ t # u
        /\ op[t] = "start" /\ Done(t) /\ outcome[t].kind = LaunchUiAutomationError
        /\ lock = u

\* C31: once start_uiautomator has raised out of its readiness wait (launch
\* timeout, premature exit, fatal marker), the process it launched is not
\* left running.
C31_NoOrphan ==
    \A t \in Threads :
        (Done(t) /\ outcome[t].tag = "raise" /\ outcome[t].kind \in LaunchErrors
              /\ launched[t] # 0) =>
            ~Running(launched[t])

\* t is inside the stop or the start of a recovery
InRecovery(t) ==
    /\ op[t] = "call"
    /\ pc[t] \in {"stop_lock", "stop_kill", "stop_killwait", "stop_wait", "start_lock"}
          \/ InSequence(t)

\* C32: when the stop or the start of a recovery raises, the call ends
\* there: no retry is sent, the caller receives that lifecycle error and not
\* the error of the first attempt, and no further stop or start is made; a
\* recovery comes to its retry only from a health check of its start that
\* found the service alive.
C32_AbortedRecovery ==
    /\ [][\A t \in Threads :
            (InRecovery(t) /\ pc'[t] = "idle") =>
                /\ outcome'[t].tag = "raise"
                /\ outcome'[t].kind \in LifecycleErrors
                /\ outcome'[t].kind # firstErr[t].kind
                /\ sent'[t] = << req[t] >>
                /\ retryErr'[t] = NoOutcome
                /\ trace'[t] = trace[t]
                /\ lock' # t]_vars
    /\ [][\A t \in Threads :
            (InRecovery(t) /\ pc'[t] = "rpc2") =>
                (pc[t] \in {"start_alive", "wait_alive"} /\ alive)]_vars
    /\ [](\A t \in Threads :
            (op[t] = "call" /\ Done(t) /\ Recoverable(firstErr[t]) /\ retryErr[t] = NoOutcome) =>
                /\ trace[t] \in {<< "rpc", "stop" >>, << "rpc", "stop", "start" >>}
                /\ outcome[t].kind \in LifecycleErrors
                /\ Len(sent[t]) = 1)

\* a call whose recovery start failed in its readiness wait
C32_Witness ==
    \E t \in Threads :
        /\ op[t] = "call" /\ Done(t)
        /\ firstErr[t].kind = HTTPError
        /\ outcome[t].kind = LaunchUiAutomationError
        /\ trace[t] = << "rpc", "stop", "start" >>
        /\ launched[t] # 0

\* C33: when the threads of a session each run a recovery, between the
\* return of a thread's recovery start and its retry the handle that start
\* launched is still the handle of the session and has not been killed.
C33_RecoveriesDisjoint ==
    \A t \in Threads :
        ( /\ \A u \in Threads : op[u] = "call"
          /\ pc[t] = "rpc2"
          /\ launched[t] # 0 )
        => (_process[owner[t]] = launched[t] /\ conn[launched[t]] = "open")

\* C34: on a direct-network session jsonrpc_call makes one RPC attempt and
\* no more: one exchange, which is the request of the call if it got on the
\* wire at all; what the attempt returned or raised is what the call returns
\* or raises, HTTPError and UiAutomationNotConnected included; no health
\* check, no stop, no start, no retry.
C34_SingleAttempt ==
    [][(fop'.name = "call" /\ conns' # conns) =>
          /\ Len(conns') = Len(conns) + 1
          /\ wire' \in {wire, Append(wire, RpcRequest(fop'.method, fop'.params))}
          /\ fop'.net \in {"non200", "connect_fail"} => fout'.kind = HTTPError
          /\ (fop'.net = "200" /\ fop'.resp.isdict /\ fop'.resp.haserr
                /\ Contains(<< "UiAutomation not connected" >>, RawText(fop'.resp))) =>
                 fout'.kind = UiAutomationNotConnectedError
          /\ UNCHANGED << svars, hvars, pushes, shells, bridge >>]_vars

\* a direct-network call ended with UiAutomationNotConnected after its one exchange
C34_Witness ==
    /\ kind = "wifi" /\ fop.name = "call"
    /\ fout.kind = UiAutomationNotConnectedError
    /\ Len(conns) = 1 /\ Len(wire) = 1

\* C35: start_uiautomator and stop_uiautomator end.  Every start or stop
\* that has begun comes to its end; each turn of a wait loop uses up at
\* least the poll interval, so the readiness wait stays within the launch
\* timeout and the stop poll within the stop timeout, one turn apart; and
\* stop, its health checks answering, returns normally, also when the
\* service is still alive at the stop deadline.
C35_Termination ==
    /\ \A t \in Threads :
            (op[t] \in {"start", "stop"} /\ pc[t] # "idle") ~> (pc[t] = "idle")
    /\ [](\A t \in Threads :
            /\ InWait(t) => elapsed[t] < launch_timeout + MaxPingTicks + PollTicks
            /\ pc[t] = "stop_wait" => elapsed[t] < StopTimeoutTicks + MaxPingTicks + PollTicks)
    /\ [][\A t \in Threads :
            /\ (pc[t] = "wait_alive" /\ pc'[t] = "wait_read") =>
                    elapsed'[t] >= elapsed[t] + PollTicks
            /\ (pc[t] = "stop_wait" /\ pc'[t] = "stop_wait" /\ elapsed'[t] # elapsed[t]) =>
                    elapsed'[t] >= elapsed[t] + PollTicks
            /\ (op[t] = "stop" /\ pc[t] = "stop_wait" /\ pc'[t] = "idle") =>
                    \/ outcome'[t].tag = "return"
                    \/ outcome'[t].kind = SocketTimeout /\ ~DeadlinePassed(elapsed[t], StopTimeoutTicks)]_vars

\* a stop has returned at its deadline with the service still alive
C35_Witness ==
    \E t \in Threads :
        /\ StopReturned(t) /\ alive
        /\ elapsed[t] >= StopTimeoutTicks

\* C36: start_uiautomator drops a held handle whose process has ended
\* before it checks liveness, and keeps any other; when its health check
\* finds the service alive (or raises) it leaves the handle and the
\* processes as they are and creates no handle; a handle is created only by
\* the step of a start that leaves its health check for the readiness wait,
\* and becomes the handle of the session.
C36_HandleBookkeeping ==
    [][/\ \A t \in Threads :
            /\ (pc[t] = "chk_proc" /\ pc'[t] = "start_alive") =>
                    /\ _process'[owner[t]] =
                            (IF _process[owner[t]] # 0 /\ event[_process[owner[t]]]
                             THEN 0 ELSE _process[owner[t]])
                    /\ UNCHANGED hvars
            /\ (pc[t] = "start_alive" /\ pc'[t] # "start_alive" /\ ~InWait(t)') =>
                    UNCHANGED << _process, hvars >>
       /\ launches' # launches =>
            \E t \in Threads :
                /\ pc[t] = "start_alive" /\ pc'[t] = "wait_read"
                /\ launches' = launches + 1
                /\ _process'[owner[t]] = launches']_vars

\* a start has dropped the handle of a process that ended by itself and is
\* about to check liveness
C36_Witness ==
    \E t \in Threads :
        /\ pc[t] = "start_alive" /\ _process[owner[t]] = 0
        /\ launches = 1 /\ event[1] /\ conn[1] = "open"

\* C37: a turn of the readiness wait tests the fatal marker, then the end
\* of the process, then the health check.  A turn that finds the marker in
\* the output raises AccessibilityServiceAlreadyRegisteredError, whether or
\* not the process has ended; a turn that finds the process ended raises
\* the launch error, whether or not the service is alive; start returns
\* from the wait only at the health check; and with a timeout of zero the
\* wait makes no turn: it raises the timeout error with no output read.
C37_CheckPriority ==
    /\ [][\A t \in Threads :
            /\ ( /\ pc[t] = "wait_read" /\ pc'[t] # "wait_read"
                  /\ ~DeadlinePassed(elapsed[t], launch_timeout)
                  /\ Contains(<< "already registered" >>, output[_process[owner[t]]]) ) =>
                    outcome'[t].kind = AccessibilityServiceAlreadyRegisteredError
            /\ (pc[t] = "wait_pool" /\ pc'[t] # "wait_pool" /\ event[_process[owner[t]]]) =>
                    /\ outcome'[t].kind = LaunchUiAutomationError
                    /\ outcome'[t].message = << "server quit unexpectly" >>
            /\ (InWait(t) /\ StartReturns(t)) => pc[t] = "wait_alive"
            /\ (launch_timeout = 0 /\ InWait(t) /\ pc'[t] # pc[t]) =>
                    /\ outcome'[t].kind = LaunchUiAutomationError
                    /\ outcome'[t].message = << "server not ready" >>
                    /\ outcome'[t].stacktrace = <<>>]_vars
    /\ [](launch_timeout = 0 => \A t \in Threads : pc[t] \notin {"wait_pool", "wait_alive"})

\* a start failed on the fatal marker of a process that has ended as well
C37_Witness ==
    \E t \in Threads :
        /\ Done(t) /\ outcome[t].kind = AccessibilityServiceAlreadyRegisteredError
        /\ launched[t] # 0 /\ event[launched[t]] /\ proc[launched[t]] = "exited"
        /\ conn[launched[t]] = "open"

\* the errors of the RPC taxonomy
RpcTaxonomy ==
    { UiAutomationNotConnectedError, UiObjectNotFoundError, RPCStackOverflowError,
      RPCUnknownError, RPCInvalidError }

\* C38: for every decoded response _jsonrpc_call returns the result value
\* or raises one error of the RPC taxonomy, also when the data field of an
\* error is absent or the error comes with a result.
C38_ClassificationTotal ==
    Answered =>
        \/ cout.tag = "return" /\ cout.value = cresp.result
        \/ cout.tag = "raise" /\ cout.kind \in RpcTaxonomy

\* C39: the method name a wrapper call sends is the attribute name the call
\* was obtained by, whatever attribute accesses on the same wrapper object
\* came before or in between; http_timeout is the timeout of the call and
\* never a parameter; the positional arguments are the params, and the
\* keyword arguments only when there are no positional ones.
C39_DispatchName ==
    wcall # NoCall =>
        /\ wcall.method = wcall.via
        /\ "http_timeout" \notin wcall.params.map
        /\ wcall.timeout = (IF "http_timeout" \in wcall.kwargs THEN "http_timeout" ELSE "HTTP_TIMEOUT")
        /\ wcall.params.seq = wcall.args
        /\ wcall.params.map = (IF wcall.args = <<>> THEN wcall.kwargs \ {"http_timeout"} ELSE {})

====
